---- MODULE Spec2Model ----
(***************************************************************************)
(* Model of the grid ray-casting renderer in src/src/main.rs:              *)
(* update_player, raycast and draw_scene, and the per-frame schedule that  *)
(* main registers.                                                         *)
(*                                                                         *)
(* Numbers.  f32 values are modelled by exact reals of the form            *)
(* (p + q*sqrt(2)) / d  (records [p, q, d], d > 0, in lowest terms), which *)
(* is closed under everything update_player and raycast do to a position   *)
(* when angles are multiples of a quarter turn.  Floating-point rounding   *)
(* is not modelled.  Angles are counted in quarter turns (PI = 2 units).   *)
(* A direction is a record [x, y, den, rad] standing for the vector        *)
(* (x, y) / (den * sqrt(rad)); a unit vector produced by Vec2::from_angle  *)
(* has den = 1 and rad = x*x + y*y.  A distance along a ray is a record    *)
(* [num, rad] standing for num * sqrt(rad).                                *)
(***************************************************************************)
EXTENDS Integers, Sequences, FiniteSets, TLC

VARIABLES
    position,       \* Transform.position of the player: <<x, y>> of numbers
    rotation,       \* Transform.rotation of the player, in quarter turns
    walls,          \* Environment.walls: set of cells <<cx, cy>>
    keyboard,       \* ButtonInput<KeyCode>: the keys pressed, as update_player read them this frame
    delta,          \* Time::delta_seconds(), as update_player read it this frame: a number
    frame,          \* number of frames started
    ran,            \* systems of the Update schedule that have run this frame
    wall_distance,  \* draw_scene's raycast result of each column, this frame
    start_pos,      \* raycast argument: <<x, y>> of numbers
    direction,      \* raycast argument: a direction record
    ray             \* raycast's locals and position in its code

vars == <<position, rotation, walls, keyboard, delta, frame, ran,
          wall_distance, start_pos, direction, ray>>

gameVars == <<position, rotation, keyboard, delta, frame, ran, wall_distance>>

----------------------------------------------------------------------------
(* Bounds of the model *)

\* frames the schedule runs
MaxFrames == 1
\* window width in pixels (columns drawn per frame)
ScreenWidth == 4
\* raycast origins have coordinates k/2, |k| <= MaxOrigin
MaxOrigin == 1
\* single-cell wall maps use the cells with |cx|, |cy| <= MaxWall
MaxWall == 0

----------------------------------------------------------------------------
(* Program constants *)

\* std::f32::consts::PI and TAU, in quarter turns
PI == 2
TAU == 4
RAYCAST_DEPTH == 100
PLAYER_SPEED == 3
PLAYER_TURNING_SPEED == PI
\* (FOV / 2.).tan() with FOV = PI / 2
TanHalfFov == 1

----------------------------------------------------------------------------
(* Exact arithmetic on numbers (p + q*sqrt(2)) / d *)

AbsInt(n) == IF n < 0 THEN -n ELSE n

SgnInt(n) == IF n < 0 THEN -1 ELSE IF n > 0 THEN 1 ELSE 0

RECURSIVE GCD(_, _)
GCD(a, b) == IF b = 0 THEN a ELSE GCD(b, a % b)

\* largest k with k*k <= n
ISqrt(n) == CHOOSE k \in 0..n : k * k <= n /\ (k + 1) * (k + 1) > n

Norm(p, q, d) ==
    LET g == GCD(GCD(AbsInt(p), AbsInt(q)), AbsInt(d))
        s == IF d < 0 THEN -1 ELSE 1
    IN  [p |-> (s * p) \div g, q |-> (s * q) \div g, d |-> (s * d) \div g]

Rat(n, m) == Norm(n, 0, m)

Zero == Rat(0, 1)

One == Rat(1, 1)

Add(a, b) == Norm(a.p * b.d + b.p * a.d, a.q * b.d + b.q * a.d, a.d * b.d)

Neg(a) == [p |-> -a.p, q |-> -a.q, d |-> a.d]

Sub(a, b) == Add(a, Neg(b))

\* a * n / m, for integers n and m /= 0
MulRat(a, n, m) == Norm(a.p * n, a.q * n, a.d * m)

Sign(a) ==
    CASE a.p >= 0 /\ a.q >= 0 -> IF a.p = 0 /\ a.q = 0 THEN 0 ELSE 1
      [] a.p <= 0 /\ a.q <= 0 -> -1
      [] a.p > 0 /\ a.q < 0   -> SgnInt(a.p * a.p - 2 * a.q * a.q)
      [] OTHER                -> SgnInt(2 * a.q * a.q - a.p * a.p)

Less(a, b) == Sign(Sub(a, b)) < 0

Abs(a) == IF Sign(a) < 0 THEN Neg(a) ELSE a

\* f32::floor, as an integer
Floor(a) ==
    LET r == ISqrt(2 * a.q * a.q)
        w == IF a.q >= 0 THEN a.p + r ELSE a.p - r - 1
    IN  w \div a.d

\* glam Vec2::fract (glam 0.25, which this Bevy API level uses): self - self.floor()
Fract(a) == Sub(a, Rat(Floor(a), 1))

\* `as i32` applied to the component c / (den * sqrt(rad)): truncation toward zero
Trunc(c, den, rad) ==
    SgnInt(c) * (CHOOSE k \in 0..AbsInt(c) :
                    /\ k * k * den * den * rad <= c * c
                    /\ (k + 1) * (k + 1) * den * den * rad > c * c)

\* Rust's % on a signed dividend: the result takes the sign of the dividend
Rem(a, b) == IF a >= 0 THEN a % b ELSE -((-a) % b)

----------------------------------------------------------------------------
(* Vectors, angles and directions *)

\* Vec2::from_angle for a whole number of quarter turns: <<cos, sin>>
FromAngle(r) ==
    CASE r % 4 = 0 -> <<1, 0>>
      [] r % 4 = 1 -> <<0, 1>>
      [] r % 4 = 2 -> <<-1, 0>>
      [] OTHER     -> <<0, -1>>

\* the unit vector along the integer vector (x, y) /= (0, 0)
UnitVector(x, y) ==
    LET g == GCD(AbsInt(x), AbsInt(y))
    IN  [x |-> x \div g, y |-> y \div g, den |-> 1,
         rad |-> ((x \div g) * (x \div g)) + ((y \div g) * (y \div g))]

\* Option<f32>
None == [some |-> FALSE, num |-> Zero, rad |-> 1]

Some(n, r) == [some |-> TRUE, num |-> n, rad |-> r]

----------------------------------------------------------------------------
(* raycast *)

Idle == [pc |-> "idle", current_cell |-> <<0, 0>>, ray_length |-> Zero,
         i |-> 1, ret |-> None]

StartCell(sp) == <<Floor(sp[1]), Floor(sp[2])>>

IsAxisAligned(dir) == dir.x = 0 \/ dir.y = 0

\* start_pos.fract().dot(direction), for an axis-aligned direction (rad = 1)
FractDot(sp, dir) ==
    Add(MulRat(Fract(sp[1]), dir.x, dir.den), MulRat(Fract(sp[2]), dir.y, dir.den))

InitialRayLength(sp, dir) ==
    LET ray_length == FractDot(sp, dir)
    IN  IF Sign(ray_length) < 0 THEN Abs(ray_length) ELSE Sub(One, ray_length)

\* the cell step of one axis-aligned iteration: (direction.x as i32, direction.y as i32)
AxisStep(dir) == <<Trunc(dir.x, dir.den, dir.rad), Trunc(dir.y, dir.den, dir.rad)>>

\* raycast up to its first loop
RaycastEnter(sp, dir) ==
    IF IsAxisAligned(dir)
    THEN [pc |-> "axis", current_cell |-> StartCell(sp),
          ray_length |-> InitialRayLength(sp, dir), i |-> 1, ret |-> None]
    ELSE [pc |-> "general", current_cell |-> StartCell(sp),
          ray_length |-> Zero, i |-> 1, ret |-> None]

\* the range 1..RAYCAST_DEPTH of both loops still yields a value
LoopContinues(s) == s.i < RAYCAST_DEPTH

\* one iteration of the axis-aligned loop
AxisBody(w, dir, s) ==
    LET cell == <<s.current_cell[1] + AxisStep(dir)[1],
                  s.current_cell[2] + AxisStep(dir)[2]>>
    IN  IF cell \in w
        THEN [s EXCEPT !.pc = "done", !.current_cell = cell,
                       !.ret = Some(s.ray_length, 1)]
        ELSE [s EXCEPT !.current_cell = cell,
                       !.ray_length = Add(s.ray_length, One), !.i = s.i + 1]

\* x_intercept without the correction for a negative direction.x
x_intercept_unadjusted(sp, dir, x) ==
    MulRat(Sub(Rat(x, 1), Fract(sp[1])), dir.den, dir.x)

\* the closures x_intercept and y_intercept: the coefficient of sqrt(direction.rad)
x_intercept(sp, dir, x) ==
    LET a == Sub(Rat(x, 1), Fract(sp[1]))
    IN  MulRat(IF dir.x < 0 THEN Add(a, One) ELSE a, dir.den, dir.x)

y_intercept(sp, dir, y) ==
    LET a == Sub(Rat(y, 1), Fract(sp[2]))
    IN  MulRat(IF dir.y < 0 THEN Add(a, One) ELSE a, dir.den, dir.y)

\* (direction.signum().x as i32, direction.signum().y as i32)
step_direction(dir) ==
    <<IF dir.x < 0 THEN -1 ELSE 1, IF dir.y < 0 THEN -1 ELSE 1>>

steps_taken(sp, s) ==
    <<s.current_cell[1] - StartCell(sp)[1], s.current_cell[2] - StartCell(sp)[2]>>

x_intercept_distance(sp, dir, s) ==
    x_intercept(sp, dir, steps_taken(sp, s)[1] + step_direction(dir)[1])

y_intercept_distance(sp, dir, s) ==
    y_intercept(sp, dir, steps_taken(sp, s)[2] + step_direction(dir)[2])

\* the x step selected with <= in place of <
StepsInXOrTie(xd, yd) == ~Less(yd, xd)

\* the test that selects the x step
StepsInX(xd, yd) == Less(xd, yd)

\* one iteration of the general loop
GeneralBody(w, sp, dir, s) ==
    LET xd == x_intercept_distance(sp, dir, s)
        yd == y_intercept_distance(sp, dir, s)
        inX == StepsInX(xd, yd)
        cell == IF inX
                THEN <<s.current_cell[1] + step_direction(dir)[1], s.current_cell[2]>>
                ELSE <<s.current_cell[1], s.current_cell[2] + step_direction(dir)[2]>>
        distance == IF inX THEN xd ELSE yd
    IN  IF cell \in w
        THEN [s EXCEPT !.pc = "done", !.current_cell = cell,
                       !.ret = Some(distance, dir.rad)]
        ELSE [s EXCEPT !.current_cell = cell, !.i = s.i + 1]

\* a loop that ran out of its range: return None
Exhausted(s) == [s EXCEPT !.pc = "done", !.ret = None]

\* one step of raycast from the state s
RayStep(w, sp, dir, s) ==
    CASE s.pc = "axis"    -> IF LoopContinues(s) THEN AxisBody(w, dir, s)
                                                 ELSE Exhausted(s)
      [] s.pc = "general" -> IF LoopContinues(s) THEN GeneralBody(w, sp, dir, s)
                                                 ELSE Exhausted(s)
      [] OTHER            -> s

RECURSIVE RunRay(_, _, _, _)
RunRay(w, sp, dir, s) ==
    IF s.pc = "done" THEN s ELSE RunRay(w, sp, dir, RayStep(w, sp, dir, s))

\* the value raycast(walls, start_pos, direction) returns
raycast(w, sp, dir) == RunRay(w, sp, dir, RaycastEnter(sp, dir)).ret

----------------------------------------------------------------------------
(* setup *)

\* the wall list with the cell (3, 0) left out
SampleWallsGap ==
    { <<-3, -3>>, <<-2, -3>>, <<-1, -3>>, <<-1, -4>>, <<0, -4>>, <<1, -4>>,
      <<2, -4>>, <<2, -3>>, <<2, -2>>, <<3, -2>>, <<3, -1>>,
      <<3, 1>>, <<3, 2>>, <<2, 2>>, <<1, 2>>, <<0, 2>>, <<-1, 2>>, <<-2, 2>>,
      <<-3, 2>>, <<-3, 1>>, <<-3, 0>>, <<-3, -1>>, <<-3, -2>> }

\* Environment.walls spawned by setup
SampleWalls ==
    { <<-3, -3>>, <<-2, -3>>, <<-1, -3>>, <<-1, -4>>, <<0, -4>>, <<1, -4>>,
      <<2, -4>>, <<2, -3>>, <<2, -2>>, <<3, -2>>, <<3, -1>>, <<3, 0>>,
      <<3, 1>>, <<3, 2>>, <<2, 2>>, <<1, 2>>, <<0, 2>>, <<-1, 2>>, <<-2, 2>>,
      <<-3, 2>>, <<-3, 1>>, <<-3, 0>>, <<-3, -1>>, <<-3, -2>> }

\* Transform spawned by setup
StartPosition == <<Zero, Zero>>

StartRotation == 0

----------------------------------------------------------------------------
(* update_player *)

Keys == {"ArrowLeft", "ArrowRight", "KeyW", "KeyA", "KeyS", "KeyD"}

\* PLAYER_TURNING_SPEED * time.delta_seconds(), a whole number of quarter turns
TurnAmount(dt) == Floor(MulRat(dt, PLAYER_TURNING_SPEED, 1))

\* transform.rotation after the two turn tests and the reduction by TAU
NewRotation(rot, keys, dt) ==
    LET r1 == IF "ArrowLeft" \in keys THEN rot + TurnAmount(dt) ELSE rot
        r2 == IF "ArrowRight" \in keys THEN r1 - TurnAmount(dt) ELSE r1
    IN  Rem(r2, TAU)

\* the local vector summed with the KeyS contribution left out
LocalDirectionNoBackward(keys) ==
    << (IF "KeyW" \in keys THEN 1 ELSE 0),
       (IF "KeyA" \in keys THEN 1 ELSE 0) + (IF "KeyD" \in keys THEN -1 ELSE 0) >>

\* the local vector `direction` summed over the pressed movement keys
LocalDirection(keys) ==
    << (IF "KeyW" \in keys THEN 1 ELSE 0) + (IF "KeyS" \in keys THEN -1 ELSE 0),
       (IF "KeyA" \in keys THEN 1 ELSE 0) + (IF "KeyD" \in keys THEN -1 ELSE 0) >>

\* direction.length() > 0.0
HasLength(v) == v[1] * v[1] + v[2] * v[2] > 0

\* Vec2::normalize of a vector with components in -1..1: <<x, y>> of numbers
Normalize(v) ==
    IF v[1] * v[1] + v[2] * v[2] = 2
    THEN <<Norm(0, v[1], 2), Norm(0, v[2], 2)>>
    ELSE <<Rat(v[1], 1), Rat(v[2], 1)>>

\* Vec2::rotate: v rotated by the unit vector u = <<cos, sin>> (integers)
Rotate(v, u) ==
    << Sub(MulRat(v[1], u[1], 1), MulRat(v[2], u[2], 1)),
       Add(MulRat(v[2], u[1], 1), MulRat(v[1], u[2], 1)) >>

\* transform.position after the movement block, the rotation being rot already
NewPosition(pos, rot, keys, dt) ==
    IF HasLength(LocalDirection(keys))
    THEN LET moved == Rotate(Normalize(LocalDirection(keys)), FromAngle(rot))
         IN  << Add(pos[1], MulRat(moved[1], PLAYER_SPEED * dt.p, dt.d)),
                Add(pos[2], MulRat(moved[2], PLAYER_SPEED * dt.p, dt.d)) >>
    ELSE pos

----------------------------------------------------------------------------
(* draw_scene *)

\* ray_direction of a column: from_angle(angle) rotated by from_angle(rotation),
\* where tan(angle) = (column - width / 2) / focal, focal = width / (2 tan(FOV / 2))
RayDirection(column, rot) ==
    LET ax == ScreenWidth
        ay == (2 * column - ScreenWidth) * TanHalfFov
        u  == FromAngle(rot)
    IN  UnitVector(ax * u[1] - ay * u[2], ay * u[1] + ax * u[2])

Columns == 0 .. (ScreenWidth - 1)

----------------------------------------------------------------------------
(* The application: setup, then the Update schedule once per frame *)

Systems == {"draw_scene", "update_player"}

\* the frame times tried: 0 s and 1/2 s (a quarter turn, 1.5 cells)
Deltas == { Zero, Rat(1, 2) }

Init ==
    /\ position = StartPosition
    /\ rotation = StartRotation
    /\ walls = SampleWalls
    /\ keyboard = {}
    /\ delta = Zero
    /\ frame = 0
    /\ ran = Systems
    /\ wall_distance = <<>>
    /\ start_pos = StartPosition
    /\ direction = UnitVector(1, 0)
    /\ ray = Idle

\* the frame's systems the schedule may start next: (draw_scene, update_player)
\* is registered with no ordering between the two
Runnable(sys) == frame > 0 /\ sys \notin ran

\* a new frame: the Update schedule runs again; nothing of this frame has been
\* read or drawn yet (gizmos last one frame)
BeginFrame ==
    /\ frame < MaxFrames
    /\ ran = Systems
    /\ frame' = frame + 1
    /\ ran' = {}
    /\ keyboard' = {}
    /\ delta' = Zero
    /\ wall_distance' = <<>>
    /\ UNCHANGED <<position, rotation, walls, start_pos, direction, ray>>

\* update_player, reading this frame's pressed keys and elapsed time
UpdatePlayer ==
    /\ Runnable("update_player")
    /\ keyboard' \in SUBSET Keys
    /\ delta' \in Deltas
    /\ rotation' = NewRotation(rotation, keyboard', delta')
    /\ position' = NewPosition(position, rotation', keyboard', delta')
    /\ ran' = ran \cup {"update_player"}
    /\ UNCHANGED <<walls, frame, wall_distance, start_pos, direction, ray>>

DrawScene ==
    /\ Runnable("draw_scene")
    /\ wall_distance' =
          [column \in Columns |-> raycast(walls, position, RayDirection(column, rotation))]
    /\ ran' = ran \cup {"draw_scene"}
    /\ UNCHANGED <<position, rotation, walls, keyboard, delta, frame, start_pos, direction, ray>>

Next == BeginFrame \/ UpdatePlayer \/ DrawScene

Spec == Init /\ [][Next]_vars

----------------------------------------------------------------------------
(* raycast on its own, its arguments drawn from bounded sets *)

OriginCoords == { Rat(k, 2) : k \in (-MaxOrigin)..MaxOrigin }

Origins == OriginCoords \X OriginCoords

UnitAxisDirections ==
    { UnitVector(1, 0), UnitVector(-1, 0), UnitVector(0, 1), UnitVector(0, -1) }

\* axis-aligned directions of length 1/2 and of length 3
NonUnitAxisDirections ==
    { [x |-> c[1], y |-> c[2], den |-> 2, rad |-> 1] :
        c \in {<<1, 0>>, <<-1, 0>>, <<0, 1>>, <<0, -1>>} }
    \cup
    { [x |-> 3 * c[1], y |-> 3 * c[2], den |-> 1, rad |-> 1] :
        c \in {<<1, 0>>, <<-1, 0>>, <<0, 1>>, <<0, -1>>} }

\* unit directions with both components non-zero
GeneralDirections ==
    { UnitVector(x, y) : x \in {-2, -1, 1, 2}, y \in {-2, -1, 1, 2} }

Directions == UnitAxisDirections \cup NonUnitAxisDirections \cup GeneralDirections

WallCoords == (-MaxWall)..MaxWall

\* a wall map with its only cell at the edge of the search depth
DepthWallMaps == { {<<RAYCAST_DEPTH, 0>>} }

WallMaps ==
    {SampleWalls, {}} \cup { {<<cx, cy>>} : cx \in WallCoords, cy \in WallCoords }
    \cup DepthWallMaps

RayInit ==
    /\ position = StartPosition
    /\ rotation = StartRotation
    /\ keyboard = {}
    /\ delta = Zero
    /\ frame = 0
    /\ ran = Systems
    /\ wall_distance = <<>>
    /\ walls \in WallMaps
    /\ start_pos \in Origins
    /\ direction \in Directions
    /\ ray = Idle

RaycastCall ==
    /\ ray.pc = "idle"
    /\ ray' = RaycastEnter(start_pos, direction)
    /\ UNCHANGED <<gameVars, walls, start_pos, direction>>

AxisIterate ==
    /\ ray.pc = "axis"
    /\ LoopContinues(ray)
    /\ ray' = AxisBody(walls, direction, ray)
    /\ UNCHANGED <<gameVars, walls, start_pos, direction>>

AxisExhausted ==
    /\ ray.pc = "axis"
    /\ ~LoopContinues(ray)
    /\ ray' = Exhausted(ray)
    /\ UNCHANGED <<gameVars, walls, start_pos, direction>>

GeneralIterate ==
    /\ ray.pc = "general"
    /\ LoopContinues(ray)
    /\ ray' = GeneralBody(walls, start_pos, direction, ray)
    /\ UNCHANGED <<gameVars, walls, start_pos, direction>>

GeneralExhausted ==
    /\ ray.pc = "general"
    /\ ~LoopContinues(ray)
    /\ ray' = Exhausted(ray)
    /\ UNCHANGED <<gameVars, walls, start_pos, direction>>

RayNext ==
    RaycastCall \/ AxisIterate \/ AxisExhausted \/ GeneralIterate \/ GeneralExhausted

RaySpec == RayInit /\ [][RayNext]_vars

----------------------------------------------------------------------------
(* Properties *)

Returned == ray.pc = "done"

Hit == Returned /\ ray.ret.some

IsUnitAxis(dir) == dir \in UnitAxisDirections

\* the step update_player takes in a frame
UpdateStep == "update_player" \notin ran /\ "update_player" \in ran'

\* C1: after every update_player call the rotation lies in [0, 2*pi): it is
\* never negative and never reaches a full turn.
C1_RotationInRange == rotation >= 0 /\ rotation < TAU

\* C2: whenever raycast returns Some(d), d is non-negative, for every origin,
\* every non-zero direction and every wall map.
C2_HitNonNegative == Hit => Sign(ray.ret.num) >= 0

\* the k-th cell a unit axis-aligned ray enters
AxisCell(sp, dir, k) == <<StartCell(sp)[1] + k * dir.x, StartCell(sp)[2] + k * dir.y>>

\* C3: a ray whose first occupied cell is the k-th cell entered returns a hit
\* when k <= maxDepth (= 100), and no-hit only when no cell among the first
\* maxDepth cells entered is occupied (stated for unit axis-aligned rays).
C3_DepthBound ==
    (Returned /\ IsUnitAxis(direction)) =>
        (ray.ret.some <=>
            \E k \in 1..RAYCAST_DEPTH : AxisCell(start_pos, direction, k) \in walls)

\* distance from the origin to the near boundary of the cell, along a unit axis
NearBoundaryDistance(sp, dir, cell) ==
    CASE dir.x > 0 -> Sub(Rat(cell[1], 1), sp[1])
      [] dir.x < 0 -> Sub(sp[1], Rat(cell[1] + 1, 1))
      [] dir.y > 0 -> Sub(Rat(cell[2], 1), sp[2])
      [] OTHER     -> Sub(sp[2], Rat(cell[2] + 1, 1))

\* C4: for an axis-aligned unit direction, the distance returned on a hit is the
\* distance from the origin to the near boundary of the occupied cell hit, for
\* every origin, an origin on a cell boundary and negative coordinates included.
C4_AxisDistance ==
    (Hit /\ IsUnitAxis(direction)) =>
        /\ ray.ret.rad = 1
        /\ ray.ret.num = NearBoundaryDistance(start_pos, direction, ray.current_cell)

\* ray parameter (coefficient of sqrt(rad)) at which origin + t * direction
\* crosses the nearer of the two grid lines of the cell on each axis
XEntry(sp, dir, cell) ==
    MulRat(Sub(Rat(IF dir.x > 0 THEN cell[1] ELSE cell[1] + 1, 1), sp[1]), dir.den, dir.x)

YEntry(sp, dir, cell) ==
    MulRat(Sub(Rat(IF dir.y > 0 THEN cell[2] ELSE cell[2] + 1, 1), sp[2]), dir.den, dir.y)

\* the ray parameter at which the ray enters the cell: the later of the two
EntryParameter(sp, dir, cell) ==
    IF Less(XEntry(sp, dir, cell), YEntry(sp, dir, cell))
    THEN YEntry(sp, dir, cell)
    ELSE XEntry(sp, dir, cell)

\* C5: for a direction with both components non-zero, the distance returned on
\* a hit is the ray parameter at which origin + t * direction crosses the grid
\* line through which it enters the cell hit, for every origin and every sign
\* combination of the direction.
C5_GeneralDistance ==
    (Hit /\ ~IsAxisAligned(direction)) =>
        /\ ray.ret.rad = direction.rad
        /\ ray.ret.num = EntryParameter(start_pos, direction, ray.current_cell)

\* C5 witness: a hit of a ray with a negative x and a positive y component from
\* an origin with a negative coordinate, after several cells
C5_Witness ==
    /\ Hit
    /\ direction.x < 0 /\ direction.y > 0
    /\ Sign(start_pos[1]) < 0
    /\ ray.i > 2
    /\ Sign(ray.ret.num) > 0

\* C6: in every frame update_player completes before draw_scene begins, so a
\* frame in which draw_scene has run is one in which update_player has run.
C6_UpdateBeforeDraw == "draw_scene" \in ran => "update_player" \in ran

\* the movement intents are all inactive or cancel exactly
IntentsCancel(keys) ==
    /\ ("KeyW" \in keys) <=> ("KeyS" \in keys)
    /\ ("KeyA" \in keys) <=> ("KeyD" \in keys)

\* C7: update_player leaves the position unchanged whenever the movement
\* intents are all inactive or cancel exactly, for every dt, every rotation and
\* whatever the turn intents.
C7_NoMovement ==
    [][(UpdateStep /\ IntentsCancel(keyboard')) => position' = position]_vars

\* C7 witness: an update with forward and backward both active, a turn intent
\* and dt > 0 has run, the player has turned and has not moved
C7_Witness ==
    /\ "update_player" \in ran
    /\ {"KeyW", "KeyS", "ArrowLeft"} \subseteq keyboard
    /\ delta # Zero
    /\ rotation # StartRotation
    /\ position = StartPosition

\* draw_scene has run this frame on the pose setup created
DrewStartPose ==
    /\ ran = {"draw_scene"}
    /\ position = StartPosition
    /\ rotation = StartRotation

\* C8: with the sample wall map, the player at (0,0) facing angle 0 and
\* fieldOfView = pi/2, the ray of every column returns a hit.
C8_AllColumnsHit ==
    DrewStartPose => \A column \in Columns : wall_distance[column].some

\* C8 witness: the draw pass has run on the start pose with 4 columns, whose
\* rays are those of the view angles atan(-1), atan(-1/2), 0 and atan(1/2)
C8_Witness ==
    /\ DrewStartPose
    /\ DOMAIN wall_distance = 0..3
    /\ RayDirection(0, rotation) = UnitVector(1, -1)
    /\ RayDirection(1, rotation) = UnitVector(2, -1)
    /\ RayDirection(2, rotation) = UnitVector(1, 0)
    /\ RayDirection(3, rotation) = UnitVector(2, 1)
    /\ \A column \in 0..3 : wall_distance[column].some

\* an iteration of the general loop in which the two intercept distances tie
TieStep ==
    /\ ray.pc = "general"
    /\ LoopContinues(ray)
    /\ x_intercept_distance(start_pos, direction, ray)
         = y_intercept_distance(start_pos, direction, ray)
    /\ ray' # ray

\* C9 as stated: on a tie the x cell index is advanced and the cell tested next
\* is the x-neighbour.
C9_TieStepsX ==
    [][TieStep => /\ ray'.current_cell[1] = ray.current_cell[1] + step_direction(direction)[1]
                  /\ ray'.current_cell[2] = ray.current_cell[2]]_vars

\* C9 amended: on a tie the y cell index is advanced and the x cell index is
\* kept: the cell tested next is the y-neighbour.
C9_TieStepsY ==
    [][TieStep => /\ ray'.current_cell[2] = ray.current_cell[2] + step_direction(direction)[2]
                  /\ ray'.current_cell[1] = ray.current_cell[1]]_vars

\* C9 witness: the first iteration was a tie and the ray is in the y-neighbour
\* of its starting cell
C9_Witness ==
    /\ ray.pc \in {"general", "done"}
    /\ x_intercept(start_pos, direction, step_direction(direction)[1])
         = y_intercept(start_pos, direction, step_direction(direction)[2])
    /\ ray.current_cell = <<StartCell(start_pos)[1],
                            StartCell(start_pos)[2] + step_direction(direction)[2]>>

\* C10: in the axis-aligned branch every iteration advances the cell index by
\* exactly +1 or -1 along the ray's axis, by the sign of the non-zero
\* component, whatever the length of the direction.
C10_AxisStepsByOne ==
    [][(ray.pc = "axis" /\ LoopContinues(ray) /\ ray' # ray) =>
          ray'.current_cell = <<ray.current_cell[1] + SgnInt(direction.x),
                                ray.current_cell[2] + SgnInt(direction.y)>>]_vars

====
